---- MODULE Spec2Model ----
(***************************************************************************)
(* Model of toolman.org/time/timetool: the Backoff retry engine            *)
(* (Backoff.validate, Backoff.Retry, contextDoneOr) and the cancellable    *)
(* Sleep it waits with, and the builders of a policy (WithStartWait,       *)
(* WithInitialWait, WithTotalDelay, CalculateBackoff).                     *)
(*                                                                         *)
(* Durations are integers in an abstract unit (the unit of Coefficient).   *)
(* One Retry call is followed from the call to its return.  The caller's   *)
(* context is cancelled by the environment at any moment of the call, the  *)
(* runtime timer created by timeAfter fires at any moment after it was     *)
(* created, and the RetryFunc returns true or false as it likes.           *)
(***************************************************************************)
EXTENDS Integers, Sequences, FiniteSets

(* ------------------------------ bounds --------------------------------- *)

\* largest Iterations value a policy of the model is built with
MaxIterations == 5

\* largest Coefficient value a policy of the model is built with
MaxCoefficient == 2

\* largest startWait / initWait a policy of the model is built with
MaxWait == 1

\* rand.Float64() is drawn from { n / RandDen : n \in 0 .. RandDen-1 }
RandDen == 4

\* largest duration passed to a builder (the smallest is -1)
MaxTotal == 3

\* largest number of builder calls made on one base policy
MaxBuild == 2

\* largest number of Sleep calls a caller makes itself
MaxSleeps == 2

\* largest number of times a receiver comes to read the ticker's channel
MaxTicks == 2

\* largest time to the deadline of the ctx passed to RetryWithBackoff
MaxTimeout == 8

\* width in bits of the model's int64: the values are
\* -2^(IntBits-1) .. 2^(IntBits-1) - 1 and the arithmetic wraps around
IntBits == 9

\* time.Millisecond in the model's nanoseconds (10^6 in the program)
Millisecond == 5

\* the milliseconds of a second in the model (1000 in the program)
MillisPerSecond == 4

(* --------------------------- program constants ------------------------- *)

minIterations == 2

\* Jitter percentages the policies are built with: invalid below the range,
\* none, valid, and invalid at the upper limit of the range.
JitterValues == {-10, 0, 50, 100}

\* *Backoff: a nil pointer, or a pointer to a Backoff struct.
Policies ==
    [isNil : {FALSE},
     Iterations : 0 .. MaxIterations,
     Coefficient : -1 .. MaxCoefficient,
     Jitter : JitterValues,
     startWait : 0 .. MaxWait,
     initWait : 0 .. MaxWait]
    \cup
    [isNil : {TRUE}, Iterations : {0}, Coefficient : {0}, Jitter : {0},
     startWait : {0}, initWait : {0}]

VARIABLES
    b,          \* the receiver of Retry
    pc,         \* position of the Retry call
    attempt,    \* the loop variable of Retry (0 before the loop)
    waitKind,   \* which Sleep of Retry is running: "start", "init", "exp"
    ctxDone,    \* ctx.Done() is closed
    timer,      \* the channel of timeAfter: "none", "armed", "fired"
    wake,       \* the select case that woke a parked Sleep
    sleepErr,   \* what the last Sleep returned
    result,     \* what Retry returned
    calls,      \* the indices retry was invoked with, in order
    rets,       \* what the invocations of retry returned, in order
    waits,      \* the Sleeps of Retry: <<kind, attempt, duration>>, in order
    pollReady,  \* the cases that were ready when the last select was entered
    cancelAt,   \* where the Retry call was when ctx was cancelled
    other,      \* the Retry call of a second goroutine on the same receiver
    heap,       \* the Backoff structs the builder calls work on, by address
    base,       \* the policy the caller started from, as it was at first
    hist,       \* the builder calls made so far, in order
    sleeps,     \* the Sleep calls a caller made itself: argument and result
    millis,     \* the argument of FromMillis
    tval,       \* the time.Time FromMillis returned: Unix sec and nsec
    back,       \* what ToMillis returned for tval
    nt,         \* the NormalTicker: nt.done is closed, nt.err, nt.C is closed
    ntCtx,      \* the Done channel of the constructor's ctx is closed
    runAt,      \* the goroutine nt.run: position, timer, tick in hand
    recv,       \* a receiver on nt.C: "away" or "waiting" in <-nt.C
    ticks,      \* the ticks sent on nt.C, in order
    events,     \* the Stop calls that returned and the expiry of ctx, in order
    lastErr,    \* what the last call of nt.Err() returned, and when
    panicked,   \* the process has panicked
    niters,      \* the iters argument of RetryWithBackoff
    dctx,       \* the deadline of its ctx: whether it has one, and the time
                \* to it as newBackoffSession measures it
    clock,      \* the time that has passed since bo.start
    callAt      \* the clock at each call of retry, in order

\* the variables of one Retry call
locals == <<pc, attempt, waitKind, ctxDone, timer, wake, sleepErr, result,
            calls, rets, waits, pollReady, cancelAt>>

\* the variables of the builder calls
buildVars == <<heap, base, hist>>

\* the variables of the callers of the other functions of the package
tickerVars == <<nt, ntCtx, runAt, recv, ticks, events, lastErr, panicked>>

deprVars == <<niters, dctx, clock, callAt>>

apart == <<sleeps, millis, tval, back, tickerVars, deprVars>>

vars == <<b, pc, attempt, waitKind, ctxDone, timer, wake, sleepErr, result,
          calls, rets, waits, pollReady, cancelAt, other, heap, base, hist,
          sleeps, millis, tval, back,
          nt, ntCtx, runAt, recv, ticks, events, lastErr, panicked,
          niters, dctx, clock, callAt>>

\* no Sleep call by a caller
NoSleeps == sleeps = <<>>

\* no FromMillis or ToMillis call
NoMillis ==
    /\ millis = 0
    /\ tval = [sec |-> 0, nsec |-> 0]
    /\ back = 0

\* no NormalTicker
NoTicker ==
    /\ nt = [done |-> FALSE, err |-> "nil", cClosed |-> FALSE]
    /\ ntCtx = FALSE
    /\ runAt = [pc |-> "none", wake |-> "none", timer |-> "none",
                held |-> FALSE, ret |-> "none"]
    /\ recv = "away"
    /\ ticks = <<>>
    /\ events = <<>>
    /\ lastErr = [val |-> "none", events |-> <<>>, exited |-> FALSE]
    /\ panicked = FALSE

\* no RetryWithBackoff call
NoDeprecated ==
    /\ niters = 0
    /\ dctx = [hasDeadline |-> FALSE, ttd |-> 0]
    /\ clock = 0
    /\ callAt = <<>>

\* no other function of the package has been called
ApartIdle ==
    /\ NoSleeps
    /\ NoMillis
    /\ NoTicker
    /\ NoDeprecated

(* ------------------------------ validate ------------------------------- *)

\* validate without its Jitter case
validateNoJitter(p) ==
    CASE p.isNil -> "ErrNilReceiver"
      [] ~p.isNil /\ p.Iterations < minIterations -> "ErrTooFewIterations"
      [] ~p.isNil /\ p.Iterations >= minIterations /\ p.Coefficient = 0
            -> "ErrZeroCoefficient"
      [] ~p.isNil /\ p.Iterations >= minIterations /\ p.Coefficient < 0
            -> "ErrNegativeDelay"
      [] OTHER -> "nil"

\* validate with the Coefficient cases ahead of the Iterations case
validateCoefficientFirst(p) ==
    CASE p.isNil -> "ErrNilReceiver"
      [] ~p.isNil /\ p.Coefficient = 0 -> "ErrZeroCoefficient"
      [] ~p.isNil /\ p.Coefficient < 0 -> "ErrNegativeDelay"
      [] ~p.isNil /\ p.Coefficient > 0 /\ p.Iterations < minIterations
            -> "ErrTooFewIterations"
      [] ~p.isNil /\ p.Coefficient > 0 /\ p.Iterations >= minIterations
            /\ p.Jitter # 0 /\ (p.Jitter < 0 \/ p.Jitter >= 100)
            -> "ErrBadJitter"
      [] OTHER -> "nil"

\* switch { case b == nil: ... default: return nil }: the first case that
\* holds decides.
validate(p) ==
    CASE p.isNil -> "ErrNilReceiver"
      [] ~p.isNil /\ p.Iterations < minIterations -> "ErrTooFewIterations"
      [] ~p.isNil /\ p.Iterations >= minIterations /\ p.Coefficient = 0
            -> "ErrZeroCoefficient"
      [] ~p.isNil /\ p.Iterations >= minIterations /\ p.Coefficient < 0
            -> "ErrNegativeDelay"
      [] ~p.isNil /\ p.Iterations >= minIterations /\ p.Coefficient > 0
            /\ p.Jitter # 0 /\ (p.Jitter < 0 \/ p.Jitter >= 100)
            -> "ErrBadJitter"
      [] OTHER -> "nil"

(* ---------------------------- contextDoneOr ---------------------------- *)

\* contextDoneOr without its ctx.Done() case
contextDoneOrIgnore(done, err) == err

\* contextDoneOr looking at ctx.Done() for a nil err only
contextDoneOrNilOnly(done, err) ==
    IF done /\ err = "nil" THEN "Canceled" ELSE err

\* select { case <-ctx.Done(): return ctx.Err() ; default: return err }
contextDoneOr(done, err) == IF done THEN "Canceled" ELSE err

(* -------------------------------- Sleep -------------------------------- *)

\* The cases of Sleep's select that can proceed: a select with several ready
\* cases takes any one of them.
SelectReady(done, fired) ==
    (IF done THEN {"ctx"} ELSE {}) \cup (IF fired THEN {"timer"} ELSE {})

\* Sleep with err = nil in both cases
SleepResultNil(case) == "nil"

\* Sleep with the bodies of its two cases exchanged
SleepResultSwapped(case) == IF case = "ctx" THEN "nil" ELSE "Canceled"

\* err of Sleep for the case taken
SleepResult(case) == IF case = "ctx" THEN "Canceled" ELSE "nil"

(* ------------------------------- delays -------------------------------- *)

RECURSIVE Pow2(_)
Pow2(n) == IF n <= 0 THEN 1 ELSE 2 * Pow2(n - 1)

\* the int64 values
Int64Min == -Pow2(IntBits - 1)
Int64Max == Pow2(IntBits - 1) - 1

\* int64 arithmetic wraps around
Wrap64(x) == ((x - Int64Min) % Pow2(IntBits)) + Int64Min

\* uint(1) << s, in a uint of IntBits bits: a shift by the width or more
\* gives 0
ShiftLeft(s) == IF s >= IntBits THEN 0 ELSE Pow2(s)

\* the shift by attempt instead of attempt - 1
MultipleShiftAttempt(k) == Pow2(k)

\* multiple := float64(uint(1) << (uint(attempt) - 1))
Multiple(k) == ShiftLeft(k - 1)

\* j := ((Jitter * r) - (Jitter / 2)) / 100 ; multiple += multiple * j ;
\* time.Duration(multiple) truncates the float64 toward zero.  With
\* r = n / RandDen the jittered multiple is the rational
\*   m * (200*RandDen + 2*Jitter*n - Jitter*RandDen) / (200*RandDen).
JitteredMultiple(p, k, n) ==
    IF p.Jitter # 0
    THEN (Multiple(k) * (200 * RandDen + 2 * p.Jitter * n - p.Jitter * RandDen))
            \div (200 * RandDen)
    ELSE Multiple(k)

\* b.Coefficient * multiple, the delay of Retry's comment
Delay(p, k, n) == p.Coefficient * JitteredMultiple(p, k, n)

\* time.Duration(x) of a float64 x with an integer value: x itself when an
\* int64 holds it, and else a value that depends on the implementation
\* (the smallest int64 on amd64, the largest on arm64)
DurationOf(x) ==
    IF x \in Int64Min .. Int64Max THEN {x} ELSE {Int64Min, Int64Max}

\* b.Coefficient * time.Duration(multiple): the int64 product wraps around
Delays(p, k, n) ==
    {Wrap64(p.Coefficient * m) : m \in DurationOf(JitteredMultiple(p, k, n))}

(* ------------------------------- actions ------------------------------- *)

\* Retry has been called and has not run yet.
InitCall ==
    /\ pc = "start"
    /\ attempt = 0
    /\ waitKind = "none"
    /\ ctxDone \in BOOLEAN
    /\ timer = "none"
    /\ wake = "none"
    /\ sleepErr = "none"
    /\ result = "pending"
    /\ calls = <<>>
    /\ rets = <<>>
    /\ waits = <<>>
    /\ pollReady = [ctx |-> FALSE, timer |-> FALSE]
    /\ cancelAt = [pc |-> IF ctxDone THEN "before" ELSE "never",
                   kind |-> "none", ncalls |-> 0]

\* the local state of a Retry call that has not run, ctx not cancelled
IdleCall ==
    [pc |-> "start", attempt |-> 0, waitKind |-> "none", ctxDone |-> FALSE,
     timer |-> "none", wake |-> "none", sleepErr |-> "none",
     result |-> "pending", calls |-> <<>>, rets |-> <<>>, waits |-> <<>>,
     pollReady |-> [ctx |-> FALSE, timer |-> FALSE],
     cancelAt |-> [pc |-> "never", kind |-> "none", ncalls |-> 0]]

\* One Retry call on any policy, by one goroutine.
Init ==
    /\ b \in Policies
    /\ InitCall
    /\ other = IdleCall
    /\ heap = <<>>
    /\ base = b
    /\ hist = <<>>
    /\ ApartIdle

\* Retry counting b.Iterations down
ReceiverAfterConsumed(p) ==
    IF p.isNil THEN p ELSE [p EXCEPT !.Iterations = p.Iterations - 1]

\* Retry reads the fields of *b and assigns to none of them: the struct
\* after a step of Retry.
ReceiverAfter(p) == p

\* Sleep(ctx, d) up to its select: ch := timeAfter(d)
StartSleep(kind, d) ==
    /\ waits' = Append(waits, <<kind, attempt', d>>)
    /\ waitKind' = kind
    /\ timer' = "armed"
    /\ pc' = "select"

\* retry(i) is called
CallRetry(i) ==
    /\ calls' = Append(calls, i)
    /\ pc' = "retry"

\* return err
Return(err) ==
    /\ result' = err
    /\ pc' = "done"

\* Retry, from its call to the select of Sleep(ctx, b.startWait)
RetryBegin ==
    /\ pc = "start"
    /\ IF validate(b) # "nil"
       THEN /\ Return(validate(b))
            /\ UNCHANGED <<attempt, waits, waitKind, timer>>
       ELSE /\ attempt' = 0
            /\ StartSleep("start", b.startWait)
            /\ UNCHANGED result
    /\ b' = ReceiverAfter(b)
    /\ UNCHANGED <<ctxDone, wake, sleepErr, calls, rets, pollReady, cancelAt>>
    /\ UNCHANGED <<other, heap, base, hist>>
    /\ UNCHANGED apart

\* the loop condition with <= for <
LoopContinuesInclusive(p, k) == k <= p.Iterations

\* the loop step skipping an index
NextAttemptSkip(k) == k + 2

\* for attempt := 1; attempt < b.Iterations; attempt++ : the condition
LoopContinues(p, k) == k < p.Iterations

\* for attempt := 1; attempt < b.Iterations; attempt++ : the step
NextAttempt(k) == k + 1

\* Retry giving up with ErrRetriesExhausted when a Sleep is interrupted
AfterSleepExhausted(err) ==
    /\ sleepErr' = err
    /\ timer' = "none"
    /\ IF err # "nil"
       THEN /\ Return("ErrRetriesExhausted")
            /\ UNCHANGED <<attempt, calls>>
       ELSE CASE waitKind = "start" ->
                    /\ CallRetry(0)
                    /\ UNCHANGED <<attempt, result>>
              [] waitKind = "init" ->
                    /\ CallRetry(attempt)
                    /\ UNCHANGED <<attempt, result>>
              [] OTHER ->
                    /\ attempt' = NextAttempt(attempt)
                    /\ IF LoopContinues(b, NextAttempt(attempt))
                       THEN /\ CallRetry(NextAttempt(attempt))
                            /\ UNCHANGED result
                       ELSE /\ Return(contextDoneOr(ctxDone,
                                                    "ErrRetriesExhausted"))
                            /\ UNCHANGED calls

\* Retry after a Sleep has returned err
AfterSleep(err) ==
    /\ sleepErr' = err
    /\ timer' = "none"
    /\ IF err # "nil"
       THEN /\ Return(err)
            /\ UNCHANGED <<attempt, calls>>
       ELSE CASE waitKind = "start" ->
                    /\ CallRetry(0)
                    /\ UNCHANGED <<attempt, result>>
              [] waitKind = "init" ->
                    /\ CallRetry(attempt)
                    /\ UNCHANGED <<attempt, result>>
              [] OTHER ->
                    /\ attempt' = NextAttempt(attempt)
                    /\ IF LoopContinues(b, NextAttempt(attempt))
                       THEN /\ CallRetry(NextAttempt(attempt))
                            /\ UNCHANGED result
                       ELSE /\ Return(contextDoneOr(ctxDone,
                                                    "ErrRetriesExhausted"))
                            /\ UNCHANGED calls

\* Sleep enters its select: a ready case is taken, and with none ready the
\* goroutine parks on both channels.
SelectPoll ==
    /\ pc = "select"
    /\ pollReady' = [ctx |-> ctxDone, timer |-> timer = "fired"]
    /\ IF SelectReady(ctxDone, timer = "fired") = {}
       THEN /\ pc' = "parked"
            /\ UNCHANGED <<attempt, timer, sleepErr, result, calls>>
       ELSE \E case \in SelectReady(ctxDone, timer = "fired") :
                AfterSleep(SleepResult(case))
    /\ b' = ReceiverAfter(b)
    /\ UNCHANGED <<waitKind, ctxDone, wake, rets, waits, cancelAt>>
    /\ UNCHANGED <<other, heap, base, hist>>
    /\ UNCHANGED apart

\* A parked Sleep resumes with the case that woke it.
SelectWake ==
    /\ pc = "woken"
    /\ AfterSleep(SleepResult(wake))
    /\ wake' = "none"
    /\ b' = ReceiverAfter(b)
    /\ UNCHANGED <<waitKind, ctxDone, rets, waits, pollReady, cancelAt>>
    /\ UNCHANGED <<other, heap, base, hist>>
    /\ UNCHANGED apart

\* The environment cancels ctx; a Sleep parked in its select is woken by
\* the close of ctx.Done().
Cancel ==
    /\ ~ctxDone
    /\ pc # "done"
    /\ ctxDone' = TRUE
    /\ cancelAt' = [pc |-> pc, kind |-> waitKind, ncalls |-> Len(calls)]
    /\ IF pc = "parked"
       THEN pc' = "woken" /\ wake' = "ctx"
       ELSE UNCHANGED <<pc, wake>>
    /\ UNCHANGED <<b, attempt, waitKind, timer, sleepErr, result, calls,
                   rets, waits, pollReady>>
    /\ UNCHANGED <<other, heap, base, hist>>
    /\ UNCHANGED apart

\* The runtime timer of timeAfter sends on its channel; a Sleep parked in
\* its select is woken by the send.
TimerFire ==
    /\ timer = "armed"
    /\ timer' = "fired"
    /\ IF pc = "parked"
       THEN pc' = "woken" /\ wake' = "timer"
       ELSE UNCHANGED <<pc, wake>>
    /\ UNCHANGED <<b, attempt, waitKind, ctxDone, sleepErr, result, calls,
                   rets, waits, pollReady, cancelAt>>
    /\ UNCHANGED <<other, heap, base, hist>>
    /\ UNCHANGED apart

\* Retry sleeping 0 for b.initWait
AfterRetryZeroInitialWait(ok, n) ==
    IF ok
    THEN /\ Return(contextDoneOr(ctxDone, "nil"))
         /\ UNCHANGED <<attempt, waits, waitKind, timer>>
    ELSE IF attempt = 0
         THEN /\ attempt' = 1
              /\ StartSleep("init", 0)
              /\ UNCHANGED result
         ELSE /\ attempt' = attempt
              /\ \E d \in Delays(b, attempt, n) : StartSleep("exp", d)
              /\ UNCHANGED result

\* Retry taking a false result of retry for success
AfterRetryNegated(ok, n) ==
    IF ~ok
    THEN /\ Return(contextDoneOr(ctxDone, "nil"))
         /\ UNCHANGED <<attempt, waits, waitKind, timer>>
    ELSE IF attempt = 0
         THEN /\ attempt' = 1
              /\ StartSleep("init", b.initWait)
              /\ UNCHANGED result
         ELSE /\ attempt' = attempt
              /\ \E d \in Delays(b, attempt, n) : StartSleep("exp", d)
              /\ UNCHANGED result

\* Retry adding b.initWait to the delay after attempt 1
AfterRetryInitWaitOnDelay(ok, n) ==
    IF ok
    THEN /\ Return(contextDoneOr(ctxDone, "nil"))
         /\ UNCHANGED <<attempt, waits, waitKind, timer>>
    ELSE IF attempt = 0
         THEN /\ attempt' = 1
              /\ StartSleep("init", b.initWait)
              /\ UNCHANGED result
         ELSE /\ attempt' = attempt
              /\ \E d \in Delays(b, attempt, n) :
                    StartSleep("exp",
                               d + IF attempt = 1 THEN b.initWait ELSE 0)
              /\ UNCHANGED result

\* Retry after retry(attempt) has returned ok, up to its return or to the
\* select of its next Sleep.  n is the numerator of the rand.Float64() draw.
AfterRetry(ok, n) ==
    IF ok
    THEN /\ Return(contextDoneOr(ctxDone, "nil"))
         /\ UNCHANGED <<attempt, waits, waitKind, timer>>
    ELSE IF attempt = 0
         THEN /\ attempt' = 1
              /\ StartSleep("init", b.initWait)
              /\ UNCHANGED result
         ELSE /\ attempt' = attempt
              /\ \E d \in Delays(b, attempt, n) : StartSleep("exp", d)
              /\ UNCHANGED result

\* retry(attempt) returns true or false.
RetryFuncReturn ==
    /\ pc = "retry"
    /\ \E ok \in BOOLEAN, n \in 0 .. RandDen - 1 :
        /\ rets' = Append(rets, ok)
        /\ AfterRetry(ok, n)
    /\ b' = ReceiverAfter(b)
    /\ UNCHANGED <<ctxDone, wake, sleepErr, calls, pollReady, cancelAt>>
    /\ UNCHANGED <<other, heap, base, hist>>
    /\ UNCHANGED apart

Next ==
    \/ RetryBegin
    \/ SelectPoll
    \/ SelectWake
    \/ Cancel
    \/ TimerFire
    \/ RetryFuncReturn

Spec == Init /\ [][Next]_vars

\* The goroutine of Retry keeps running, every call of retry returns, and
\* the timer of every Sleep fires in the end; nothing is assumed of ctx.
SpecLive ==
    /\ Init
    /\ [][Next]_vars
    /\ WF_vars(RetryBegin)
    /\ WF_vars(SelectPoll)
    /\ WF_vars(SelectWake)
    /\ WF_vars(RetryFuncReturn)
    /\ WF_vars(TimerFire)

\* Policies without jitter and without waits whose Iterations go past the
\* width of uint and whose Coefficient goes up to the largest int64.
WidePolicies ==
    [isNil : {FALSE},
     Iterations : 2 .. IntBits + 2,
     Coefficient : {1, Pow2(IntBits - 3), Int64Max},
     Jitter : {0},
     startWait : {0},
     initWait : {0}]

\* One Retry call on such a policy.
InitWide ==
    /\ b \in WidePolicies
    /\ InitCall
    /\ other = IdleCall
    /\ heap = <<>>
    /\ base = b
    /\ hist = <<>>
    /\ ApartIdle

SpecWide == InitWide /\ [][Next]_vars

(* ------------------------------ builders ------------------------------- *)

\* a nil *Backoff
NilPolicy ==
    [isNil |-> TRUE, Iterations |-> 0, Coefficient |-> 0, Jitter |-> 0,
     startWait |-> 0, initWait |-> 0]

\* the durations passed to the builders
Durations == -1 .. MaxTotal

\* the policies a caller writes as a struct literal: the unexported waits
\* are zero
BasePolicies ==
    {p \in Policies : ~p.isNil /\ p.startWait = 0 /\ p.initWait = 0}

\* b.startWait = d ; return &b      (b is the method's copy of the receiver)
WithStartWait(p, d) == [p EXCEPT !.startWait = d]

\* b.initWait = d ; return &b
WithInitialWait(p, d) == [p EXCEPT !.initWait = d]

\* float64(int((1 << (b.Iterations - 2)) - 1))
TotalDenominator(p) == Wrap64(Wrap64(ShiftLeft(p.Iterations - 2)) - 1)

\* WithTotalDelay with the shift by Iterations - 1
WithTotalDelayShiftOne(p, d) ==
    IF p.Iterations < minIterations
    THEN [pol |-> NilPolicy, err |-> "ErrTooFewIterations"]
    ELSE IF p.Iterations = minIterations
    THEN [pol |-> WithInitialWait([p EXCEPT !.Coefficient = 1], d),
          err |-> "nil"]
    ELSE IF d - (p.startWait + p.initWait) < 0
    THEN [pol |-> NilPolicy, err |-> "ErrNegativeDelay"]
    ELSE LET q == [p EXCEPT !.Coefficient =
                        (d - (p.startWait + p.initWait))
                            \div (Pow2(p.Iterations - 1) - 1)]
         IN  IF validate(q) # "nil"
             THEN [pol |-> NilPolicy, err |-> validate(q)]
             ELSE [pol |-> q, err |-> "nil"]

\* WithTotalDelay: the struct behind the returned pointer (NilPolicy for a
\* nil pointer) and the error.  The quotient of the two float64 values is
\* truncated toward zero by time.Duration().
WithTotalDelay(p, d) ==
    IF p.Iterations < minIterations
    THEN [pol |-> NilPolicy, err |-> "ErrTooFewIterations"]
    ELSE IF p.Iterations = minIterations
    THEN [pol |-> WithInitialWait([p EXCEPT !.Coefficient = 1], d),
          err |-> "nil"]
    ELSE IF d - (p.startWait + p.initWait) < 0
    THEN [pol |-> NilPolicy, err |-> "ErrNegativeDelay"]
    ELSE LET q == [p EXCEPT !.Coefficient =
                        (d - (p.startWait + p.initWait))
                            \div TotalDenominator(p)]
         IN  IF validate(q) # "nil"
             THEN [pol |-> NilPolicy, err |-> validate(q)]
             ELSE [pol |-> q, err |-> "nil"]

\* b := &Backoff{Iterations: iters, Jitter: jitter}
CalculateLiteral(iters, jitter) ==
    [isNil |-> FALSE, Iterations |-> iters, Coefficient |-> 0,
     Jitter |-> jitter, startWait |-> 0, initWait |-> 0]

\* return b.WithTotalDelay(total)
CalculateBackoff(iters, total, jitter) ==
    WithTotalDelay(CalculateLiteral(iters, jitter), total)

\* a builder with a pointer receiver: it works on the receiver itself
PointerReceiverCall(h, r, v) == [heap |-> [h EXCEPT ![r] = v], ret |-> r]

\* The builders have value receivers: the method works on a copy of the
\* struct at r and returns the address of that copy, a new struct.
ValueReceiverCall(h, r, v) == [heap |-> Append(h, v), ret |-> Len(h) + 1]

\* the record of a builder call: the receiver's address and value, the
\* argument, the returned pointer (0 for nil) and struct, and the error
CallRecord(op, r, in, d, ret, res) ==
    [op |-> op, recv |-> r, in |-> in, d |-> d,
     ret |-> IF res.err = "nil" THEN ret ELSE 0,
     out |-> res.pol, err |-> res.err]

\* One builder call on the struct at address r.
Build(op, r, d, res) ==
    /\ pc = "build"
    /\ Len(hist) < MaxBuild
    /\ heap' = IF res.err = "nil"
               THEN ValueReceiverCall(heap, r, res.pol).heap
               ELSE heap
    /\ hist' = Append(hist,
                 CallRecord(op, r, heap[r], d,
                            ValueReceiverCall(heap, r, res.pol).ret, res))
    /\ UNCHANGED <<b, base, other>>
    /\ UNCHANGED locals
    /\ UNCHANGED apart

DoWithStartWait ==
    \E r \in 1 .. Len(heap), d \in Durations :
        Build("WithStartWait", r, d,
              [pol |-> WithStartWait(heap[r], d), err |-> "nil"])

DoWithInitialWait ==
    \E r \in 1 .. Len(heap), d \in Durations :
        Build("WithInitialWait", r, d,
              [pol |-> WithInitialWait(heap[r], d), err |-> "nil"])

DoWithTotalDelay ==
    \E r \in 1 .. Len(heap), d \in Durations :
        Build("WithTotalDelay", r, d, WithTotalDelay(heap[r], d))

\* CalculateBackoff(iters, total, jitter): the literal is a new struct, and
\* WithTotalDelay is called on it.
DoCalculateBackoff ==
    /\ pc = "build"
    /\ hist = <<>>
    /\ \E iters \in 0 .. MaxIterations, total \in Durations,
          jitter \in JitterValues :
        LET lit == CalculateLiteral(iters, jitter)
            res == CalculateBackoff(iters, total, jitter)
            h1 == Append(heap, lit)
        IN  /\ heap' = IF res.err = "nil"
                       THEN ValueReceiverCall(h1, Len(h1), res.pol).heap
                       ELSE h1
            /\ hist' = <<CallRecord("CalculateBackoff", Len(h1), lit, total,
                           ValueReceiverCall(h1, Len(h1), res.pol).ret, res)>>
    /\ UNCHANGED <<b, base, other>>
    /\ UNCHANGED locals
    /\ UNCHANGED apart

\* no Retry call is running
NoCall ==
    /\ pc = "build"
    /\ attempt = 0
    /\ waitKind = "none"
    /\ ctxDone = FALSE
    /\ timer = "none"
    /\ wake = "none"
    /\ sleepErr = "none"
    /\ result = "pending"
    /\ calls = <<>>
    /\ rets = <<>>
    /\ waits = <<>>
    /\ pollReady = [ctx |-> FALSE, timer |-> FALSE]
    /\ cancelAt = [pc |-> "never", kind |-> "none", ncalls |-> 0]
    /\ other = IdleCall

\* A base policy written as a literal, and builder calls on it and on the
\* policies they return.
InitBuild ==
    /\ base \in BasePolicies
    /\ b = base
    /\ heap = <<base>>
    /\ hist = <<>>
    /\ NoCall
    /\ ApartIdle

NextBuild ==
    \/ DoWithStartWait
    \/ DoWithInitialWait
    \/ DoWithTotalDelay

SpecBuild == InitBuild /\ [][NextBuild]_vars

\* One call of CalculateBackoff.
InitCalc ==
    /\ base = NilPolicy
    /\ b = base
    /\ heap = <<>>
    /\ hist = <<>>
    /\ NoCall
    /\ ApartIdle

SpecCalc == InitCalc /\ [][DoCalculateBackoff]_vars

\* Retry called on a policy that WithTotalDelay(d) returned for a receiver
\* with any start and initial wait.
InitDerived ==
    /\ \E p \in Policies, d \in Durations :
          /\ ~p.isNil
          /\ WithTotalDelay(p, d).err = "nil"
          /\ base = p
          /\ b = WithTotalDelay(p, d).pol
          /\ heap = ValueReceiverCall(<<p>>, 1, b).heap
          /\ hist = <<CallRecord("WithTotalDelay", 1, p, d,
                                 ValueReceiverCall(<<p>>, 1, b).ret,
                                 WithTotalDelay(p, d))>>
    /\ InitCall
    /\ other = IdleCall
    /\ ApartIdle

SpecDerived == InitDerived /\ [][Next]_vars

(* ------------------- two Retry calls on one receiver ------------------- *)

\* the local state of the Retry call that is running
Current ==
    [pc |-> pc, attempt |-> attempt, waitKind |-> waitKind,
     ctxDone |-> ctxDone, timer |-> timer, wake |-> wake,
     sleepErr |-> sleepErr, result |-> result, calls |-> calls,
     rets |-> rets, waits |-> waits, pollReady |-> pollReady,
     cancelAt |-> cancelAt]

\* The scheduler runs the other goroutine: its Retry call, with its own
\* ctx, timer and retry, takes the next steps.  Only *b is shared.
Switch ==
    /\ other' = Current
    /\ pc' = other.pc
    /\ attempt' = other.attempt
    /\ waitKind' = other.waitKind
    /\ ctxDone' = other.ctxDone
    /\ timer' = other.timer
    /\ wake' = other.wake
    /\ sleepErr' = other.sleepErr
    /\ result' = other.result
    /\ calls' = other.calls
    /\ rets' = other.rets
    /\ waits' = other.waits
    /\ pollReady' = other.pollReady
    /\ cancelAt' = other.cancelAt
    /\ UNCHANGED <<b, heap, base, hist>>
    /\ UNCHANGED apart

\* the policies two goroutines share in the model
SharedPolicies ==
    {p \in Policies : /\ validate(p) = "nil"
                      /\ p.Iterations <= 3
                      /\ p.Coefficient = 1
                      /\ p.startWait = 0}

\* Two goroutines have called Retry on the same *Backoff, each with its
\* own ctx and retry.
InitTwo ==
    /\ b \in SharedPolicies
    /\ base = b
    /\ InitCall
    /\ ~ctxDone
    /\ other = IdleCall
    /\ heap = <<>>
    /\ hist = <<>>
    /\ ApartIdle

NextTwo ==
    \/ Next
    \/ Switch

SpecTwo == InitTwo /\ [][NextTwo]_vars

(* ---------------------- Sleep called by a caller ----------------------- *)

\* Sleep asking for a timer of max(d, 0)
SleepTimerClamped(d) == IF d < 0 THEN 0 ELSE d

\* ch := timeAfter(d): the duration of the timer Sleep asks for
SleepTimer(d) == d

\* return err, with the cases that could proceed when the select took one
SleepReturn(err, done, fired) ==
    /\ sleepErr' = err
    /\ timer' = "none"
    /\ pc' = "idle"
    /\ sleeps' = [sleeps EXCEPT ![Len(sleeps)] =
                     [@ EXCEPT !.err = err, !.done = done, !.fired = fired]]

\* A caller calls Sleep(ctx, d), on the ctx of its last call or on a new
\* one: Sleep up to its select.
SleepCall ==
    /\ pc = "idle"
    /\ Len(sleeps) < MaxSleeps
    /\ \E d \in Durations, c \in {ctxDone, FALSE} :
        /\ ctxDone' = c
        /\ sleeps' = Append(sleeps, [d |-> d, err |-> "pending",
                                     done |-> FALSE, fired |-> FALSE])
        /\ attempt' = attempt
        /\ StartSleep("sleep", SleepTimer(d))
    /\ UNCHANGED <<b, wake, sleepErr, result, calls, rets,
                   pollReady, cancelAt, other, heap, base, hist>>
    /\ UNCHANGED <<millis, tval, back, tickerVars, deprVars>>

\* Sleep enters its select: a ready case is taken, and with none ready the
\* goroutine parks on both channels.
SleepSelect ==
    /\ pc = "select"
    /\ pollReady' = [ctx |-> ctxDone, timer |-> timer = "fired"]
    /\ IF SelectReady(ctxDone, timer = "fired") = {}
       THEN /\ pc' = "parked"
            /\ UNCHANGED <<timer, sleepErr, sleeps>>
       ELSE \E case \in SelectReady(ctxDone, timer = "fired") :
                SleepReturn(SleepResult(case), ctxDone, timer = "fired")
    /\ UNCHANGED <<b, attempt, waitKind, ctxDone, wake, result, calls, rets,
                   waits, cancelAt, other, heap, base, hist>>
    /\ UNCHANGED <<millis, tval, back, tickerVars, deprVars>>

\* A parked Sleep resumes with the case that woke it: no other case could
\* proceed at that moment.
SleepWake ==
    /\ pc = "woken"
    /\ SleepReturn(SleepResult(wake), wake = "ctx", wake = "timer")
    /\ wake' = "none"
    /\ UNCHANGED <<b, attempt, waitKind, ctxDone, result, calls, rets, waits,
                   pollReady, cancelAt, other, heap, base, hist>>
    /\ UNCHANGED <<millis, tval, back, tickerVars, deprVars>>

\* A caller that has not called Sleep yet; its ctx may be cancelled already.
InitSleep ==
    /\ b = NilPolicy
    /\ base = b
    /\ heap = <<>>
    /\ hist = <<>>
    /\ other = IdleCall
    /\ pc = "idle"
    /\ attempt = 0
    /\ waitKind = "none"
    /\ ctxDone \in BOOLEAN
    /\ timer = "none"
    /\ wake = "none"
    /\ sleepErr = "none"
    /\ result = "pending"
    /\ calls = <<>>
    /\ rets = <<>>
    /\ waits = <<>>
    /\ pollReady = [ctx |-> FALSE, timer |-> FALSE]
    /\ cancelAt = [pc |-> IF ctxDone THEN "before" ELSE "never",
                   kind |-> "none", ncalls |-> 0]
    /\ sleeps = <<>>
    /\ NoMillis
    /\ NoTicker
    /\ NoDeprecated

NextSleep ==
    \/ SleepCall
    \/ SleepSelect
    \/ SleepWake
    \/ Cancel
    \/ TimerFire

SpecSleep == InitSleep /\ [][NextSleep]_vars

(* ------------------------- FromMillis, ToMillis ------------------------ *)

\* a / b of Go for b > 0: the quotient truncated toward zero
Quo(a, c) == IF a >= 0 THEN a \div c ELSE -((-a) \div c)

\* time.Second, in nanoseconds
Second == MillisPerSecond * Millisecond

\* time.Unix(sec, nsec): nsec outside [0, 1e9) is carried into sec
Unix(sec, nsec) ==
    IF nsec < 0 \/ nsec >= Second
    THEN LET n == Quo(nsec, Second)
             s1 == sec + n
             ns1 == nsec - n * Second
         IN  IF ns1 < 0
             THEN [sec |-> s1 - 1, nsec |-> ns1 + Second]
             ELSE [sec |-> s1, nsec |-> ns1]
    ELSE [sec |-> sec, nsec |-> nsec]

\* sse := millis / 1000
\* mso := int64(time.Millisecond) * (millis - (sse * 1000))
\* return time.Unix(sse, mso)
FromMillis(m) ==
    LET sse == Quo(m, MillisPerSecond)
        mso == Wrap64(Millisecond
                        * Wrap64(m - Wrap64(sse * MillisPerSecond)))
    IN  Unix(sse, mso)

\* t.Add(d) for |d| < time.Second
TimeAdd(t, d) ==
    LET ns == t.nsec + d
    IN  IF ns >= Second THEN [sec |-> t.sec + 1, nsec |-> ns - Second]
        ELSE IF ns < 0 THEN [sec |-> t.sec - 1, nsec |-> ns + Second]
        ELSE [sec |-> t.sec, nsec |-> ns]

\* t.Round(d) for a d that divides time.Second: to the nearest multiple of
\* d, halfway values up
TimeRound(t, d) ==
    LET r == t.nsec % d
    IN  IF r + r < d THEN TimeAdd(t, -r) ELSE TimeAdd(t, d - r)

\* t.UnixNano(): t.Unix()*1e9 + nanoseconds, in int64
UnixNano(t) == Wrap64(Wrap64(t.sec * Second) + t.nsec)

\* t = t.Round(time.Millisecond)
\* return t.UnixNano() / int64(time.Millisecond)
ToMillis(t) == Quo(UnixNano(TimeRound(t, Millisecond)), Millisecond)

\* a caller calls FromMillis(millis)
DoFromMillis ==
    /\ pc = "from"
    /\ tval' = FromMillis(millis)
    /\ pc' = "to"
    /\ UNCHANGED <<b, attempt, waitKind, ctxDone, timer, wake, sleepErr,
                   result, calls, rets, waits, pollReady, cancelAt, other,
                   heap, base, hist, sleeps, millis, back>>
    /\ UNCHANGED <<tickerVars, deprVars>>

\* and passes the result to ToMillis
DoToMillis ==
    /\ pc = "to"
    /\ back' = ToMillis(tval)
    /\ pc' = "converted"
    /\ UNCHANGED <<b, attempt, waitKind, ctxDone, timer, wake, sleepErr,
                   result, calls, rets, waits, pollReady, cancelAt, other,
                   heap, base, hist, sleeps, millis, tval>>
    /\ UNCHANGED <<tickerVars, deprVars>>

\* a caller holds any int64 millisecond count
InitMillis ==
    /\ base = NilPolicy
    /\ b = base
    /\ heap = <<>>
    /\ hist = <<>>
    /\ other = IdleCall
    /\ attempt = 0
    /\ waitKind = "none"
    /\ ctxDone = FALSE
    /\ timer = "none"
    /\ wake = "none"
    /\ sleepErr = "none"
    /\ result = "pending"
    /\ calls = <<>>
    /\ rets = <<>>
    /\ waits = <<>>
    /\ pollReady = [ctx |-> FALSE, timer |-> FALSE]
    /\ cancelAt = [pc |-> "never", kind |-> "none", ncalls |-> 0]
    /\ NoSleeps
    /\ pc = "from"
    /\ millis \in Int64Min .. Int64Max
    /\ tval = [sec |-> 0, nsec |-> 0]
    /\ back = 0
    /\ NoTicker
    /\ NoDeprecated

NextMillis ==
    \/ DoFromMillis
    \/ DoToMillis

SpecMillis == InitMillis /\ [][NextMillis]_vars

(* ---------------------------- NormalTicker ---------------------------- *)

\* the variables no ticker step changes
notTicker == <<b, pc, attempt, waitKind, ctxDone, timer, wake, sleepErr,
               result, calls, rets, waits, pollReady, cancelAt, other, heap,
               base, hist, sleeps, millis, tval, back, deprVars>>

\* the cases of onePass's first select that can proceed
FirstReady ==
    (IF ntCtx THEN {"ctx"} ELSE {})
    \cup (IF nt.done THEN {"done"} ELSE {})
    \cup (IF runAt.timer = "fired" THEN {"timer"} ELSE {})

\* the cases of onePass's second select that can proceed
SecondReady ==
    (IF ntCtx THEN {"ctx"} ELSE {})
    \cup (IF nt.done THEN {"done"} ELSE {})
    \cup (IF recv = "waiting" THEN {"send"} ELSE {})

\* onePass returns (true, err): run is about to store err in nt.err
RunReturn(err) ==
    /\ runAt' = [runAt EXCEPT !.pc = "storing", !.wake = "none", !.ret = err]
    /\ UNCHANGED <<nt, recv, ticks>>

\* the case taken in the first select
TakeFirst(case) ==
    CASE case = "ctx" -> RunReturn("Canceled")
      [] case = "done" -> RunReturn("nil")
      [] OTHER ->
            /\ runAt' = [runAt EXCEPT !.pc = "second", !.wake = "none",
                                      !.timer = "drained",
                                      !.held = (recv # "waiting")]
            /\ UNCHANGED <<nt, recv, ticks>>

\* nt.C <- tv has been done: onePass returns (false, nil) and run resets
\* the timer for the next period
AfterSend ==
    runAt' = [runAt EXCEPT !.pc = "first", !.wake = "none",
                           !.timer = "armed", !.held = FALSE]

\* the tick that is sent: whether Stop had returned, and whether the
\* receiver was not there when the period elapsed
Tick == [stopped |-> nt.done, held |-> runAt.held]

\* the ticks sent on nt.C, the first MaxTicks of them, after one more
Sent(t) == IF Len(ticks) < MaxTicks THEN Append(ticks, t) ELSE ticks

\* the case taken in the second select
TakeSecond(case) ==
    CASE case = "ctx" -> RunReturn("Canceled")
      [] case = "done" -> RunReturn("nil")
      [] OTHER ->
            /\ ticks' = Sent(Tick)
            /\ recv' = "away"
            /\ AfterSend
            /\ UNCHANGED nt

\* run enters the first select of onePass
OnePassFirst ==
    /\ ~panicked
    /\ runAt.pc = "first"
    /\ IF FirstReady = {}
       THEN /\ runAt' = [runAt EXCEPT !.pc = "firstParked"]
            /\ UNCHANGED <<nt, recv, ticks>>
       ELSE \E case \in FirstReady : TakeFirst(case)
    /\ UNCHANGED <<ntCtx, events, lastErr, panicked>>
    /\ UNCHANGED notTicker

\* run, parked in the first select, resumes with the case that woke it
OnePassFirstWake ==
    /\ ~panicked
    /\ runAt.pc = "firstWoken"
    /\ TakeFirst(runAt.wake)
    /\ UNCHANGED <<ntCtx, events, lastErr, panicked>>
    /\ UNCHANGED notTicker

\* run enters the second select of onePass, a tick in hand
OnePassSecond ==
    /\ ~panicked
    /\ runAt.pc = "second"
    /\ IF SecondReady = {}
       THEN /\ runAt' = [runAt EXCEPT !.pc = "secondParked"]
            /\ UNCHANGED <<nt, recv, ticks>>
       ELSE \E case \in SecondReady : TakeSecond(case)
    /\ UNCHANGED <<ntCtx, events, lastErr, panicked>>
    /\ UNCHANGED notTicker

\* run, parked in the second select, resumes with the case that woke it; a
\* receiver that woke it has taken the tick already
OnePassSecondWake ==
    /\ ~panicked
    /\ runAt.pc = "secondWoken"
    /\ IF runAt.wake = "send"
       THEN AfterSend /\ UNCHANGED <<nt, recv, ticks>>
       ELSE TakeSecond(runAt.wake)
    /\ UNCHANGED <<ntCtx, events, lastErr, panicked>>
    /\ UNCHANGED notTicker

\* nt.err = err ; return, and the deferred stopAndFlush(t)
RunStore ==
    /\ ~panicked
    /\ runAt.pc = "storing"
    /\ nt' = [nt EXCEPT !.err = runAt.ret]
    /\ runAt' = [runAt EXCEPT !.pc = "exited", !.timer = "stopped"]
    /\ UNCHANGED <<ntCtx, recv, ticks, events, lastErr, panicked>>
    /\ UNCHANGED notTicker

\* only a run parked in the first select is woken
WakeRunFirstOnly(ev) ==
    IF runAt.pc = "firstParked"
    THEN [runAt EXCEPT !.pc = "firstWoken", !.wake = ev]
    ELSE runAt

\* a select run is parked in is woken by the event ev
WakeRun(ev) ==
    IF runAt.pc = "firstParked"
    THEN [runAt EXCEPT !.pc = "firstWoken", !.wake = ev]
    ELSE IF runAt.pc = "secondParked"
    THEN [runAt EXCEPT !.pc = "secondWoken", !.wake = ev]
    ELSE runAt

\* the runtime timer sends on t.C
TickerTimerFire ==
    /\ ~panicked
    /\ runAt.timer = "armed"
    /\ runAt' = IF runAt.pc = "firstParked"
                THEN [runAt EXCEPT !.pc = "firstWoken", !.wake = "timer",
                                   !.timer = "fired"]
                ELSE [runAt EXCEPT !.timer = "fired"]
    /\ UNCHANGED <<nt, ntCtx, recv, ticks, events, lastErr, panicked>>
    /\ UNCHANGED notTicker

\* nt.Stop(): close(nt.done); the close of a closed channel panics
Stop ==
    /\ ~panicked
    /\ IF nt.done
       THEN /\ panicked' = TRUE
            /\ UNCHANGED <<nt, runAt, events>>
       ELSE /\ nt' = [nt EXCEPT !.done = TRUE]
            /\ runAt' = WakeRun("done")
            /\ events' = Append(events, "stop")
            /\ UNCHANGED panicked
    /\ UNCHANGED <<ntCtx, recv, ticks, lastErr>>
    /\ UNCHANGED notTicker

\* the constructor's ctx expires or is cancelled
CtxExpire ==
    /\ ~panicked
    /\ ~ntCtx
    /\ ntCtx' = TRUE
    /\ runAt' = WakeRun("ctx")
    /\ events' = Append(events, "expire")
    /\ UNCHANGED <<nt, recv, ticks, lastErr, panicked>>
    /\ UNCHANGED notTicker

\* a receiver comes to read nt.C; a run parked on its send hands the tick over
RecvArrive ==
    /\ ~panicked
    /\ recv = "away"
    /\ IF runAt.pc = "secondParked"
       THEN /\ ticks' = Sent(Tick)
            /\ runAt' = WakeRun("send")
            /\ UNCHANGED recv
       ELSE /\ recv' = "waiting"
            /\ UNCHANGED <<ticks, runAt>>
    /\ UNCHANGED <<nt, ntCtx, events, lastErr, panicked>>
    /\ UNCHANGED notTicker

\* What a read of nt.err can give: run writes the field with no
\* synchronisation, so a read during the write gives the old or the new
\* value.
ErrResults ==
    IF runAt.pc = "storing" THEN {nt.err, runAt.ret} ELSE {nt.err}

\* nt.Err(): return nt.err
Err ==
    /\ ~panicked
    /\ \E v \in ErrResults :
          lastErr' = [val |-> v, events |-> events,
                      exited |-> runAt.pc = "exited"]
    /\ UNCHANGED <<nt, ntCtx, runAt, recv, ticks, events, panicked>>
    /\ UNCHANGED notTicker

\* NewNormalTicker(ctx, mean, stddev) has returned: the channels are made,
\* nt.err is the zero value, and run has been started with its timer.
InitTicker ==
    /\ base = NilPolicy
    /\ b = base
    /\ heap = <<>>
    /\ hist = <<>>
    /\ other = IdleCall
    /\ pc = "ticker"
    /\ attempt = 0
    /\ waitKind = "none"
    /\ ctxDone = FALSE
    /\ timer = "none"
    /\ wake = "none"
    /\ sleepErr = "none"
    /\ result = "pending"
    /\ calls = <<>>
    /\ rets = <<>>
    /\ waits = <<>>
    /\ pollReady = [ctx |-> FALSE, timer |-> FALSE]
    /\ cancelAt = [pc |-> "never", kind |-> "none", ncalls |-> 0]
    /\ NoSleeps
    /\ NoMillis
    /\ nt = [done |-> FALSE, err |-> "nil", cClosed |-> FALSE]
    /\ ntCtx \in BOOLEAN
    /\ runAt = [pc |-> "first", wake |-> "none", timer |-> "armed",
                held |-> FALSE, ret |-> "none"]
    /\ recv = "away"
    /\ ticks = <<>>
    /\ events = IF ntCtx THEN <<"expire">> ELSE <<>>
    /\ lastErr = [val |-> "none", events |-> <<>>, exited |-> FALSE]
    /\ panicked = FALSE
    /\ NoDeprecated

NextTicker ==
    \/ OnePassFirst
    \/ OnePassFirstWake
    \/ OnePassSecond
    \/ OnePassSecondWake
    \/ RunStore
    \/ TickerTimerFire
    \/ Stop
    \/ CtxExpire
    \/ RecvArrive
    \/ Err

SpecTicker == InitTicker /\ [][NextTicker]_vars

\* a select of onePass takes a case whose channel is closed
ExitFirst == OnePassFirst /\ runAt'.pc = "storing"
ExitSecond == OnePassSecond /\ runAt'.pc = "storing"

\* The goroutine of run keeps running, and a select that finds a closed
\* channel ready again and again takes its case in the end; nothing is
\* assumed of the timer, of the receivers or of the callers of Stop.
SpecTickerLive ==
    /\ InitTicker
    /\ [][NextTicker]_vars
    /\ WF_vars(OnePassFirst)
    /\ WF_vars(OnePassFirstWake)
    /\ WF_vars(OnePassSecond)
    /\ WF_vars(OnePassSecondWake)
    /\ WF_vars(RunStore)
    /\ SF_vars(ExitFirst)
    /\ SF_vars(ExitSecond)

(* --------------------------- RetryWithBackoff -------------------------- *)

backoffPower == 3

RECURSIVE Power(_, _)
Power(x, n) == IF n = 0 THEN 1 ELSE x * Power(x, n - 1)

\* the variables no step of RetryWithBackoff changes
notDepr == <<b, other, heap, base, hist, sleeps, millis, tval, back,
             tickerVars, niters, dctx, clock>>

\* the ctx values passed to RetryWithBackoff: without a deadline, or with
\* one -1 .. MaxTimeout away when newBackoffSession reads the clock
DeadlineContexts ==
    {[hasDeadline |-> FALSE, ttd |-> 0]}
    \cup [hasDeadline : {TRUE}, ttd : -1 .. MaxTimeout]

\* the deadline looked at before the number of iterations
PrecheckDeadlineFirst(n, d) ==
    IF ~d.hasDeadline THEN "ErrMissingDeadline"
    ELSE IF n < 2 THEN "ErrTooFewIterations"
    ELSE "nil"

\* if iters < 2 { return ErrTooFewIterations }, and then in
\* newBackoffSession: if !ok { return nil, ErrMissingDeadline }
Precheck(n, d) ==
    IF n < 2 THEN "ErrTooFewIterations"
    ELSE IF ~d.hasDeadline THEN "ErrMissingDeadline"
    ELSE "nil"

\* fx := math.Pow(float64(i), backoffPower) / bo.denominator
\* dt := time.Duration(float64(bo.timeout) * fx)
\* the offset from bo.start at which retry(i) is due, truncated
SleepOffset(t, i, n) ==
    (t * Power(i, backoffPower)) \div Power(n, backoffPower)

\* RetryWithBackoff from its call to the first call of retry:
\* the checks, newBackoffSession, and bos.sleep(ctx, 0)
RetryWithBackoffBegin ==
    /\ pc = "start"
    /\ attempt' = 0
    /\ IF Precheck(niters, dctx) # "nil"
       THEN Return(Precheck(niters, dctx)) /\ UNCHANGED <<calls, callAt>>
       ELSE IF dctx.ttd <= 0
       THEN /\ Return(contextDoneOr(ctxDone, "ErrTimeWarp"))
            /\ UNCHANGED <<calls, callAt>>
       ELSE IF contextDoneOr(ctxDone, "nil") # "nil"
       THEN /\ Return(contextDoneOr(ctxDone, "nil"))
            /\ UNCHANGED <<calls, callAt>>
       ELSE /\ CallRetry(0)
            /\ callAt' = Append(callAt, clock)
            /\ UNCHANGED result
    /\ UNCHANGED <<waitKind, ctxDone, timer, wake, sleepErr, rets, waits,
                   pollReady, cancelAt>>
    /\ UNCHANGED notDepr

\* the loop of RetryWithBackoff ending one iteration early
DeprLoopContinuesShort(n, i) == i < n - 1

\* for i := 0; i < iters; i++ : the condition
DeprLoopContinues(n, i) == i < n

\* RetryWithBackoff returning nil for a true result without the last check
DeprAfterRetryNoCheck(ok) ==
    IF ok
    THEN /\ Return("nil")
         /\ UNCHANGED <<attempt, waits, waitKind, timer>>
    ELSE /\ attempt' = attempt + 1
         /\ IF DeprLoopContinues(niters, attempt + 1)
            THEN /\ StartSleep("backoff",
                               SleepOffset(dctx.ttd, attempt + 1, niters))
                 /\ UNCHANGED result
            ELSE /\ Return(contextDoneOr(ctxDone, "ErrRetriesExhausted"))
                 /\ UNCHANGED <<waits, waitKind, timer>>

\* RetryWithBackoff after retry(i) has returned ok, up to its return or to
\* the select of bos.sleep(ctx, i+1)
DeprAfterRetry(ok) ==
    IF ok
    THEN /\ Return(contextDoneOr(ctxDone, "nil"))
         /\ UNCHANGED <<attempt, waits, waitKind, timer>>
    ELSE /\ attempt' = attempt + 1
         /\ IF DeprLoopContinues(niters, attempt + 1)
            THEN /\ StartSleep("backoff",
                               SleepOffset(dctx.ttd, attempt + 1, niters))
                 /\ UNCHANGED result
            ELSE /\ Return(contextDoneOr(ctxDone, "ErrRetriesExhausted"))
                 /\ UNCHANGED <<waits, waitKind, timer>>

\* retry(i) returns true or false.
DeprRetryFuncReturn ==
    /\ pc = "retry"
    /\ \E ok \in BOOLEAN :
        /\ rets' = Append(rets, ok)
        /\ DeprAfterRetry(ok)
    /\ UNCHANGED <<ctxDone, wake, sleepErr, calls, pollReady, cancelAt>>
    /\ UNCHANGED <<notDepr, callAt>>

\* select { case <-ctx.Done(): return ctx.Err() ; case <-ch: } return nil
SessionSleepResult(case) == IF case = "ctx" THEN "Canceled" ELSE "nil"

\* RetryWithBackoff after bos.sleep(ctx, i) has returned err
AfterSessionSleep(err) ==
    /\ sleepErr' = err
    /\ timer' = "none"
    /\ IF err # "nil"
       THEN Return(err) /\ UNCHANGED <<calls, callAt>>
       ELSE /\ CallRetry(attempt)
            /\ callAt' = Append(callAt, clock)
            /\ UNCHANGED result

\* bos.sleep enters its select
SessionSleepSelect ==
    /\ pc = "select"
    /\ pollReady' = [ctx |-> ctxDone, timer |-> timer = "fired"]
    /\ IF SelectReady(ctxDone, timer = "fired") = {}
       THEN /\ pc' = "parked"
            /\ UNCHANGED <<timer, sleepErr, result, calls, callAt>>
       ELSE \E case \in SelectReady(ctxDone, timer = "fired") :
                AfterSessionSleep(SessionSleepResult(case))
    /\ UNCHANGED <<attempt, waitKind, ctxDone, wake, rets, waits, cancelAt>>
    /\ UNCHANGED notDepr

\* bos.sleep, parked in its select, resumes with the case that woke it
SessionSleepWake ==
    /\ pc = "woken"
    /\ AfterSessionSleep(SessionSleepResult(wake))
    /\ wake' = "none"
    /\ UNCHANGED <<attempt, waitKind, ctxDone, rets, waits, pollReady,
                   cancelAt>>
    /\ UNCHANGED notDepr

\* the timer of bos.sleep sending before its time
SessionTimerFireEarly ==
    /\ timer = "armed"
    /\ timer' = "fired"
    /\ IF pc = "parked"
       THEN pc' = "woken" /\ wake' = "timer"
       ELSE UNCHANGED <<pc, wake>>
    /\ UNCHANGED <<attempt, waitKind, ctxDone, sleepErr, result, calls,
                   rets, waits, pollReady, cancelAt>>
    /\ UNCHANGED <<notDepr, callAt>>

\* sd := bo.start.Add(dt).Sub(time.Now()) ; ch := time.After(sd): the
\* runtime timer sends on ch when sd has passed, which is not before
\* bo.start + dt; a bos.sleep parked in its select is woken by the send.
SessionTimerFire ==
    /\ timer = "armed"
    /\ clock >= waits[Len(waits)][3]
    /\ timer' = "fired"
    /\ IF pc = "parked"
       THEN pc' = "woken" /\ wake' = "timer"
       ELSE UNCHANGED <<pc, wake>>
    /\ UNCHANGED <<attempt, waitKind, ctxDone, sleepErr, result, calls,
                   rets, waits, pollReady, cancelAt>>
    /\ UNCHANGED <<notDepr, callAt>>

\* time passes
ClockTick ==
    /\ pc \notin {"start", "done"}
    /\ clock < MaxTimeout
    /\ clock' = clock + 1
    /\ UNCHANGED <<attempt, waitKind, ctxDone, timer, wake, sleepErr, result,
                   calls, rets, waits, pollReady, cancelAt, pc>>
    /\ UNCHANGED <<b, other, heap, base, hist, sleeps, millis, tval, back,
                   tickerVars, niters, dctx, callAt>>

\* RetryWithBackoff has been called with any iters and ctx.
InitDeprecated ==
    /\ b = NilPolicy
    /\ base = b
    /\ heap = <<>>
    /\ hist = <<>>
    /\ other = IdleCall
    /\ InitCall
    /\ NoSleeps
    /\ NoMillis
    /\ NoTicker
    /\ niters \in 0 .. MaxIterations
    /\ dctx \in DeadlineContexts
    /\ clock = 0
    /\ callAt = <<>>

NextDeprecated ==
    \/ RetryWithBackoffBegin
    \/ DeprRetryFuncReturn
    \/ SessionSleepSelect
    \/ SessionSleepWake
    \/ Cancel
    \/ SessionTimerFire
    \/ ClockTick

SpecDeprecated == InitDeprecated /\ [][NextDeprecated]_vars

(* ------------------------- helpers of the claims ------------------------ *)

ValidationErrors ==
    {"ErrNilReceiver", "ErrTooFewIterations", "ErrZeroCoefficient",
     "ErrNegativeDelay", "ErrBadJitter"}

\* the five rules of the validation contract, in their priority order
RuleError ==
    <<"ErrNilReceiver", "ErrTooFewIterations", "ErrZeroCoefficient",
      "ErrNegativeDelay", "ErrBadJitter">>

Violates(p, i) ==
    CASE i = 1 -> p.isNil
      [] i = 2 -> p.Iterations < 2
      [] i = 3 -> p.Coefficient = 0
      [] i = 4 -> p.Coefficient < 0
      [] OTHER -> p.Jitter # 0 /\ (p.Jitter < 0 \/ p.Jitter >= 100)

ViolatedRules(p) == {i \in 1 .. 5 : Violates(p, i)}

FirstViolated(p) ==
    CHOOSE i \in ViolatedRules(p) : \A j \in ViolatedRules(p) : i <= j

AllFalse(s) == \A i \in 1 .. Len(s) : ~s[i]

\* <<0, 1, ..., n-1>>
Indices(n) == [i \in 1 .. n |-> i - 1]

RECURSIVE SumDurations(_)
SumDurations(w) ==
    IF w = <<>> THEN 0 ELSE w[1][3] + SumDurations(Tail(w))

ExpWaits == SelectSeq(waits, LAMBDA w : w[1] = "exp")

(* -------------------------------- claims -------------------------------- *)

\* C1: a policy that fails validation (nil, Iterations < 2, Coefficient = 0,
\* Coefficient < 0, Jitter outside [0,100)) makes Retry return a validation
\* error with no invocation of retry and no wait at all, startWait included.
Thm_C1 ==
    ViolatedRules(b) # {} =>
        /\ calls = <<>>
        /\ waits = <<>>
        /\ timer = "none"
        /\ pc \in {"start", "done"}
        /\ pc = "done" => result \in ValidationErrors

Wit_C1 ==
    /\ pc = "done"
    /\ ~b.isNil /\ b.Iterations >= 2 /\ b.Coefficient > 0 /\ b.Jitter = 100
    /\ b.startWait > 0
    /\ result = "ErrBadJitter"
    /\ waits = <<>>

\* C2: the validation error Retry returns is the error of the earliest
\* violated rule in the order nil, Iterations < 2, Coefficient = 0,
\* Coefficient < 0, bad Jitter; and Retry returns a validation error exactly
\* when some rule is violated.
Thm_C2 ==
    /\ validate(b) = IF ViolatedRules(b) = {} THEN "nil"
                     ELSE RuleError[FirstViolated(b)]
    /\ pc = "done" =>
         IF ViolatedRules(b) = {}
         THEN result \notin ValidationErrors
         ELSE result = RuleError[FirstViolated(b)]

Wit_C2 ==
    /\ pc = "done"
    /\ ~b.isNil /\ b.Iterations < 2 /\ b.Coefficient = 0 /\ b.Jitter = 100
    /\ result = "ErrTooFewIterations"

\* C3: for a valid policy, when every invocation of retry returned false and
\* ctx was never cancelled, Retry has invoked retry exactly Iterations times,
\* with 0 .. Iterations-1, and returns ErrRetriesExhausted.
Thm_C3 ==
    (pc = "done" /\ ViolatedRules(b) = {} /\ ~ctxDone /\ AllFalse(rets)) =>
        /\ result = "ErrRetriesExhausted"
        /\ calls = Indices(b.Iterations)
        /\ Len(rets) = b.Iterations

Wit_C3 ==
    /\ pc = "done" /\ ~ctxDone /\ AllFalse(rets)
    /\ b.Iterations >= 3
    /\ Len(calls) = b.Iterations
    /\ result = "ErrRetriesExhausted"

\* C4: for a valid policy, when retry first returns true at index k and ctx
\* is not cancelled, Retry returns nil after exactly k+1 invocations; retry
\* is never invoked again after it returned true.
Thm_C4 ==
    /\ \A i \in 1 .. Len(rets) :
          rets[i] => (i = Len(rets) /\ Len(calls) = i /\ pc = "done")
    /\ (pc = "done" /\ ~ctxDone /\ rets # <<>> /\ rets[Len(rets)]) =>
          /\ result = "nil"
          /\ calls = Indices(Len(rets))

Wit_C4 ==
    /\ pc = "done" /\ ~ctxDone
    /\ Len(rets) >= 3 /\ rets[Len(rets)]
    /\ result = "nil"

\* C5: the indices retry is invoked with are always 0, 1, 2, ... in this
\* order without gap or repetition, fewer than Iterations of them, and an
\* invocation starts only when the one before has returned.
Thm_C5 ==
    /\ calls = Indices(Len(calls))
    /\ Len(calls) <= b.Iterations
    /\ Len(rets) <= Len(calls)
    /\ Len(calls) <= Len(rets) + 1
    /\ (Len(calls) = Len(rets) + 1) <=> (pc = "retry")

Wit_C5 ==
    /\ pc = "retry"
    /\ calls = <<0, 1, 2, 3>>
    /\ Len(rets) = 3

\* C6: when ctx is cancelled while Retry is suspended in a Sleep (parked in
\* its select with the timer not fired), Retry returns the cancellation
\* error and retry is not invoked again: never at all when the Sleep is the
\* startup wait, and with 0 only when it is the initial wait.
Thm_C6 ==
    cancelAt.pc = "parked" =>
        /\ Len(calls) = cancelAt.ncalls
        /\ pc \in {"woken", "done"}
        /\ pc = "done" => result = "Canceled"
        /\ cancelAt.kind = "start" => calls = <<>>
        /\ cancelAt.kind = "init" => calls = <<0>>

Wit_C6 ==
    /\ cancelAt.pc = "parked" /\ cancelAt.kind = "init"
    /\ pc = "done"
    /\ result = "Canceled"
    /\ b.Iterations >= 3

\* C7: when retry returned true, Retry returns the cancellation error if ctx
\* is cancelled at the final check and nil if it is not; Retry returns nil
\* only with ctx not cancelled at that check.
Thm_C7 ==
    /\ (pc = "done" /\ rets # <<>> /\ rets[Len(rets)]) =>
          result = IF ctxDone THEN "Canceled" ELSE "nil"
    /\ result = "nil" => (~ctxDone /\ rets # <<>> /\ rets[Len(rets)])

Wit_C7 ==
    /\ pc = "done"
    /\ Len(rets) >= 2 /\ rets[Len(rets)]
    /\ cancelAt.pc = "retry" /\ cancelAt.ncalls = Len(rets)
    /\ result = "Canceled"

\* C8: when all Iterations invocations of retry returned false, Retry
\* returns the cancellation error if ctx is cancelled at the final check and
\* ErrRetriesExhausted if it is not; ErrRetriesExhausted is returned only
\* with ctx not cancelled.
Thm_C8 ==
    /\ (/\ pc = "done" /\ ViolatedRules(b) = {}
        /\ Len(rets) = b.Iterations /\ AllFalse(rets)) =>
          result = IF ctxDone THEN "Canceled" ELSE "ErrRetriesExhausted"
    /\ result = "ErrRetriesExhausted" =>
          (~ctxDone /\ Len(rets) = b.Iterations /\ AllFalse(rets))

Wit_C8 ==
    /\ pc = "done"
    /\ Len(rets) = b.Iterations /\ AllFalse(rets)
    /\ Len(waits) = b.Iterations + 1
    /\ sleepErr = "nil"
    /\ ctxDone
    /\ result = "Canceled"

\* C9 as stated: when the timer and the cancellation are both ready as
\* Sleep enters its select, Sleep returns the cancellation error.
Cex_C9 ==
    (pollReady.ctx /\ pollReady.timer) => sleepErr = "Canceled"

\* C9 as amended: when both are ready Sleep returns the cancellation error
\* or nil, whichever case the select takes; it returns the cancellation
\* error when only the cancellation is ready, and nil only when the timer
\* is ready.
Thm_C9 ==
    /\ (pollReady.ctx /\ pollReady.timer) => sleepErr \in {"Canceled", "nil"}
    /\ (pollReady.ctx /\ ~pollReady.timer) => sleepErr = "Canceled"
    /\ (~pollReady.ctx /\ pollReady.timer) => sleepErr = "nil"

Wit_C9 ==
    /\ pollReady.ctx /\ pollReady.timer
    /\ sleepErr = "nil"
    /\ waitKind = "exp"

\* the policy {iterations: 5, coefficient: 1s, jitter: 0}, in seconds
Scenario5 ==
    [isNil |-> FALSE, Iterations |-> 5, Coefficient |-> 1, Jitter |-> 0,
     startWait |-> 0, initWait |-> 0]

Cex_C11 ==
    (ViolatedRules(b) = {} /\ b.Iterations = 2) =>
        /\ Len(calls) <= 2
        /\ \A i \in 1 .. Len(waits) : waits[i][1] # "exp"
        /\ Len(waits) <= 2

\* rets is what a retry that fails and then succeeds has returned so far
FalseThenTrue(r) ==
    /\ Len(r) <= 2
    /\ Len(r) >= 1 => ~r[1]
    /\ Len(r) = 2 => r[2]

Cex_C13 ==
    (ViolatedRules(b) = {} /\ b.Jitter # 0) =>
        \A i \in 1 .. Len(waits) :
            waits[i][1] = "exp" =>
                LET k == waits[i][2]
                    d == waits[i][3]
                    unj == b.Coefficient * 2 ^ (k - 1)
                IN  /\ 200 * d >= unj * (200 - b.Jitter)
                    /\ 200 * d <= unj * (200 + b.Jitter)

\* the builder calls made so far that are calls of op
CallsOf(op) == {i \in 1 .. Len(hist) : hist[i].op = op}

\* the total left for the exponential delays: d - startWait - initWait
Remainder(c) == c.d - c.in.startWait - c.in.initWait

Abs(x) == IF x < 0 THEN -x ELSE x

\* C14 as stated: when Retry runs on a policy returned by WithTotalDelay(d)
\* (more than 2 iterations, Jitter = 0) and retry always fails, the
\* exponential delays Retry waits add up to d - startWait - initWait, up to
\* the remainder of the integer division.
Cex_C14 ==
    (/\ hist # <<>> /\ b.Iterations > 2 /\ b.Jitter = 0
     /\ pc = "done" /\ ~ctxDone /\ AllFalse(rets)) =>
        Abs(SumDurations(ExpWaits) - Remainder(hist[1]))
            < TotalDenominator(b)

\* C15 as stated: for a receiver with Iterations > 2 and
\* d - startWait - initWait > 0, WithTotalDelay(d) returns a policy whose
\* Coefficient is that remainder divided by 2^(Iterations-2) - 1, the other
\* fields being the receiver's.
Cex_C15 ==
    \A i \in CallsOf("WithTotalDelay") :
        (hist[i].in.Iterations > 2 /\ Remainder(hist[i]) > 0) =>
            /\ hist[i].err = "nil"
            /\ hist[i].ret # 0
            /\ hist[i].out =
                  [hist[i].in EXCEPT !.Coefficient =
                      Remainder(hist[i]) \div (2 ^ (hist[i].in.Iterations - 2) - 1)]

\* C15 as amended: the Coefficient is the quotient truncated toward zero,
\* and the policy is returned only if it passes validation: a quotient
\* truncated to zero gives ErrZeroCoefficient and a Jitter outside [0,100)
\* gives ErrBadJitter, with a nil policy.  Iterations = 3 and d = 3 with no
\* waits give Coefficient = 3.
Thm_C15 ==
    \A i \in CallsOf("WithTotalDelay") :
        (hist[i].in.Iterations > 2 /\ Remainder(hist[i]) > 0) =>
            LET in == hist[i].in
                q == Remainder(hist[i]) \div (2 ^ (in.Iterations - 2) - 1)
                badJitter == in.Jitter < 0 \/ in.Jitter >= 100
            IN  /\ q = 0 => (hist[i].err = "ErrZeroCoefficient"
                             /\ hist[i].ret = 0)
                /\ (q # 0 /\ badJitter) => (hist[i].err = "ErrBadJitter"
                                           /\ hist[i].ret = 0)
                /\ (q # 0 /\ ~badJitter) =>
                      /\ hist[i].err = "nil"
                      /\ hist[i].ret # 0
                      /\ hist[i].out = [in EXCEPT !.Coefficient = q]
                /\ (in.Iterations = 3 /\ hist[i].d = 3 /\ in.Jitter = 0
                    /\ in.startWait = 0 /\ in.initWait = 0) =>
                      hist[i].out.Coefficient = 3

Wit_C15 ==
    /\ Len(hist) = 2
    /\ hist[1].op = "WithInitialWait" /\ hist[1].d = 1
    /\ hist[2].op = "WithTotalDelay" /\ hist[2].recv = hist[1].ret
    /\ hist[2].in.Iterations = 3 /\ hist[2].d = 3 /\ hist[2].in.Jitter = 50
    /\ hist[2].err = "nil"
    /\ hist[2].out.Coefficient = 2
    /\ hist[2].out.initWait = 1

\* C16 as stated: WithTotalDelay returns ErrTooFewIterations when
\* Iterations < 2 and, for the other receivers, ErrNegativeDelay with a nil
\* policy whenever d - startWait - initWait is negative.
Cex_C16 ==
    \A i \in CallsOf("WithTotalDelay") :
        /\ hist[i].in.Iterations < 2 => hist[i].err = "ErrTooFewIterations"
        /\ (hist[i].in.Iterations >= 2 /\ Remainder(hist[i]) < 0) =>
              (hist[i].err = "ErrNegativeDelay" /\ hist[i].ret = 0)

\* C17 as stated: CalculateBackoff(iters, total, jitter) returns an error
\* whenever iters < 2, or total < 0, or jitter is outside [0, 100).
Cex_C17 ==
    \A i \in CallsOf("CalculateBackoff") :
        (\/ hist[i].in.Iterations < 2
         \/ hist[i].d < 0
         \/ hist[i].in.Jitter < 0
         \/ hist[i].in.Jitter >= 100) => hist[i].err # "nil"

\* C18 as stated: for a receiver with Iterations = 2, WithTotalDelay(d)
\* returns without error a policy with initWait = d, a nonzero Coefficient
\* and the receiver's Iterations, Jitter and startWait, which has the same
\* effect on Retry as WithInitialWait(d): the same validation result and
\* the same delays.
Cex_C18 ==
    \A i \in CallsOf("WithTotalDelay") :
        hist[i].in.Iterations = 2 =>
            LET in == hist[i].in
                out == hist[i].out
                iw == WithInitialWait(in, hist[i].d)
            IN  /\ hist[i].err = "nil"
                /\ hist[i].ret # 0
                /\ out.initWait = hist[i].d
                /\ out.Coefficient # 0
                /\ out.Iterations = in.Iterations
                /\ out.Jitter = in.Jitter
                /\ out.startWait = in.startWait
                /\ validate(out) = validate(iw)
                /\ \A n \in 0 .. RandDen - 1 :
                      validate(iw) = "nil" => Delay(out, 1, n) = Delay(iw, 1, n)

\* C19: no builder call, failing or not, changes the struct it is called
\* on: the base policy and every policy returned so far are as they were,
\* and every returned pointer is a new struct, the receiver's copy with
\* the change made, different from the receiver and from every pointer
\* returned before.
Thm_C19 ==
    /\ heap # <<>> => heap[1] = base
    /\ \A i \in 1 .. Len(hist) :
          /\ heap[hist[i].recv] = hist[i].in
          /\ hist[i].err # "nil" => hist[i].ret = 0
          /\ hist[i].ret # 0 =>
                /\ hist[i].ret # hist[i].recv
                /\ hist[i].ret \in 1 .. Len(heap)
                /\ heap[hist[i].ret] = hist[i].out
                /\ \A j \in 1 .. i - 1 :
                      /\ hist[j].ret # hist[i].ret
                      /\ hist[j].recv # hist[i].ret

Wit_C19 ==
    /\ Len(hist) = 2
    /\ hist[1].op = "WithTotalDelay" /\ hist[1].err = "ErrNegativeDelay"
    /\ hist[2].op = "WithStartWait" /\ hist[2].recv = 1
    /\ hist[2].d # base.startWait
    /\ heap[1] = base

\* what a Retry call running alone on policy p can have done: the
\* invocations 0, 1, 2, ..., the waits startWait, initWait and then the
\* delays of p after attempts 1, 2, ..., and a result that follows from its
\* own retry results and its own ctx
AsAlone(L, p) ==
    /\ L.calls = Indices(Len(L.calls))
    /\ Len(L.calls) <= p.Iterations
    /\ Len(L.waits) <= p.Iterations + 1
    /\ \A i \in 1 .. Len(L.waits) :
          CASE i = 1 -> L.waits[i] = <<"start", 0, p.startWait>>
            [] i = 2 -> L.waits[i] = <<"init", 1, p.initWait>>
            [] OTHER -> /\ L.waits[i][1] = "exp"
                        /\ L.waits[i][2] = i - 2
                        /\ \E n \in 0 .. RandDen - 1 :
                              L.waits[i][3] = Delay(p, i - 2, n)
    /\ L.pc = "done" =>
          L.result =
              IF L.ctxDone THEN "Canceled"
              ELSE IF L.rets # <<>> /\ L.rets[Len(L.rets)] THEN "nil"
              ELSE "ErrRetriesExhausted"
    /\ (L.pc = "done" /\ L.result = "ErrRetriesExhausted") =>
          (Len(L.rets) = p.Iterations /\ AllFalse(L.rets))

\* C20: Retry never writes a field of its policy, and of two Retry calls
\* running concurrently on the same policy each makes the invocations and
\* waits and returns the result it would make and return alone on that
\* policy.
Thm_C20 ==
    /\ b = base
    /\ AsAlone(Current, base)
    /\ AsAlone(other, base)

Wit_C20 ==
    /\ pc = "done" /\ other.pc = "done"
    /\ b.Iterations = 3
    /\ result = "nil" /\ Len(calls) = 2
    /\ other.result = "ErrRetriesExhausted" /\ Len(other.calls) = 3
    /\ ~ctxDone /\ ~other.ctxDone

Cex_C22 ==
    pc = "converted" =>
        /\ back = millis
        /\ tval.sec * Second + tval.nsec = millis * Millisecond
        /\ tval.nsec \in 0 .. Second - 1

\* C23 as stated: no tick is sent on nt.C after Stop has returned.
Cex_C23 == \A i \in 1 .. Len(ticks) : ~ticks[i].stopped

\* C24 as stated: while the ticker has not been stopped (no Stop call, ctx
\* not expired) Err returns ErrTickerActive.
Cex_C24 ==
    (lastErr.val # "none" /\ lastErr.events = <<>>) =>
        lastErr.val = "ErrTickerActive"

\* C25 as stated: after a Stop call made before ctx expired Err returns
\* nil, also when ctx expires later; once the ticker has shut down on an
\* expired ctx with no Stop call, Err returns ctx.Err().
Cex_C25 ==
    /\ (lastErr.events # <<>> /\ lastErr.events[1] = "stop") =>
          lastErr.val = "nil"
    /\ (lastErr.events = <<"expire">> /\ lastErr.exited) =>
          lastErr.val = "Canceled"

\* C26 as stated: a tick whose period elapsed with no receiver ready on
\* nt.C is discarded: run never waits in its send for the receiver, and no
\* such tick is delivered.
Cex_C26 ==
    /\ runAt.pc # "secondParked"
    /\ \A i \in 1 .. Len(ticks) : ~ticks[i].held

\* C27: RetryWithBackoff returns ErrTooFewIterations when iters < 2, also
\* when ctx has no deadline, and ErrMissingDeadline when iters >= 2 and ctx
\* has no deadline; retry is not invoked in either case.
Thm_C27 ==
    (niters < 2 \/ ~dctx.hasDeadline) =>
        /\ calls = <<>>
        /\ pc \in {"start", "done"}
        /\ pc = "done" =>
              result = IF niters < 2 THEN "ErrTooFewIterations"
                       ELSE "ErrMissingDeadline"

Wit_C27 ==
    /\ pc = "done"
    /\ niters = 1
    /\ ~dctx.hasDeadline
    /\ ctxDone
    /\ result = "ErrTooFewIterations"

\* C28: when retry has returned true, in a call of index below iters,
\* RetryWithBackoff returns ctx.Err() if ctx is done at the final check and
\* nil if it is not.
Thm_C28 ==
    (pc = "done" /\ rets # <<>> /\ rets[Len(rets)]) =>
        /\ Len(calls) <= niters
        /\ calls = Indices(Len(calls))
        /\ result = IF ctxDone THEN "Canceled" ELSE "nil"

Wit_C28 ==
    /\ pc = "done"
    /\ rets = <<FALSE, FALSE, TRUE>>
    /\ sleepErr = "nil"
    /\ ctxDone
    /\ result = "Canceled"

NoWaits(p) == [p EXCEPT !.startWait = 0, !.initWait = 0]

\* C30: Retry on a valid policy waits startWait once, as its first wait and
\* before attempt 0, and initWait once, as its second wait, when attempt 0
\* has returned false and before attempt 1; every later wait is the
\* exponential delay of the policy without the two waits, so with both zero
\* nothing is waited between a failed attempt 0 and attempt 1.
Thm_C30 ==
    validate(b) = "nil" =>
        /\ pc # "start" => Len(waits) >= 1
        /\ calls # <<>> => Len(waits) >= 1
        /\ Len(waits) >= 2 <=> (rets # <<>> /\ ~rets[1])
        /\ Len(calls) >= 2 => Len(waits) >= 2
        /\ Len(waits) >= 3 => Len(rets) >= 2
        /\ \A i \in 1 .. Len(waits) :
              /\ waits[i][1] = "start" <=> i = 1
              /\ waits[i][1] = "init" <=> i = 2
              /\ i = 1 => waits[i] = <<"start", 0, b.startWait>>
              /\ i = 2 => waits[i] = <<"init", 1, b.initWait>>
              /\ i >= 3 =>
                    /\ waits[i][1] = "exp"
                    /\ waits[i][2] = i - 2
                    /\ \E n \in 0 .. RandDen - 1 :
                          waits[i][3] = Delay(NoWaits(b), i - 2, n)

Wit_C30 ==
    /\ pc = "done"
    /\ b.startWait = 1 /\ b.initWait = 1 /\ b.Jitter = 0
    /\ rets = <<FALSE, FALSE, TRUE>>
    /\ Len(waits) = 3
    /\ result = "nil"

\* start + timeout * (i/iters)^3 as a time.Duration from bo.start
Scheduled(i) ==
    (dctx.ttd * i * i * i) \div (niters * niters * niters)

\* a RetryWithBackoff call that got past its checks
SessionMade == niters >= 2 /\ dctx.hasDeadline /\ dctx.ttd > 0

\* C31 as stated: retry(0) is invoked without waiting, retry(i), i >= 1, not
\* before the scheduled instant start + timeout * (i/iters)^3, and these
\* instants are strictly increasing in i and strictly before the deadline.
Cex_C31 ==
    SessionMade =>
        /\ callAt # <<>> => callAt[1] = 0
        /\ \A i \in 1 .. Len(callAt) - 1 : callAt[i + 1] >= Scheduled(i)
        /\ \A i \in 1 .. niters - 1 : Scheduled(i) < dctx.ttd
        /\ \A i \in 1 .. Len(callAt) - 2 : Scheduled(i) < Scheduled(i + 1)

\* C31 as amended: retry(0) is invoked without waiting, retry(i), i >= 1,
\* after one wait up to the scheduled instant and not before it; the
\* scheduled instants never decrease with i, may coincide, and are strictly
\* before the deadline.
Thm_C31 ==
    SessionMade =>
        /\ callAt # <<>> => callAt[1] = 0
        /\ Len(callAt) = Len(calls)
        /\ Len(waits) <= Len(calls)
        /\ Len(calls) <= Len(waits) + 1
        /\ \A i \in 1 .. Len(waits) : waits[i] = <<"backoff", i, Scheduled(i)>>
        /\ \A i \in 1 .. Len(callAt) - 1 :
              /\ callAt[i + 1] >= Scheduled(i)
              /\ callAt[i + 1] >= callAt[i]
        /\ \A i \in 1 .. niters - 1 : Scheduled(i) < dctx.ttd
        /\ \A i \in 1 .. niters - 2 : Scheduled(i) <= Scheduled(i + 1)

Wit_C31 ==
    /\ pc = "done"
    /\ niters = 5
    /\ dctx.ttd = 8
    /\ callAt = <<0, 0, 0, 1, 4>>
    /\ result = "ErrRetriesExhausted"

\* C32 as stated: for a valid policy, once ctx is cancelled retry is not
\* invoked again: never when ctx was cancelled before the call of Retry, and
\* not with k+1 when it was cancelled during attempt k.
Cex_C32 ==
    (validate(b) = "nil" /\ ctxDone) => Len(calls) = cancelAt.ncalls

\* C33: every Retry call returns, given that every call of retry returns
\* and every timer fires or ctx is cancelled, and it makes no more than
\* Iterations calls of retry and Iterations + 1 Sleeps (none of either on a
\* policy that fails validation).
Thm_C33 ==
    /\ [](IF validate(b) = "nil"
          THEN /\ Len(calls) <= b.Iterations
               /\ Len(waits) <= b.Iterations + 1
          ELSE calls = <<>> /\ waits = <<>>)
    /\ <>(pc = "done")

Wit_C33 ==
    /\ pc = "done"
    /\ b.Iterations = 4
    /\ Len(calls) = 4
    /\ Len(waits) = 5
    /\ result = "ErrRetriesExhausted"

\* C34: what Retry returns is a validation error, ctx.Err(),
\* ErrRetriesExhausted or nil: a validation error exactly on a policy that
\* fails validate, nil only when the last call of retry returned true, and
\* ErrRetriesExhausted only after Iterations calls that all returned false.
Thm_C34 ==
    /\ pc # "done" => result = "pending"
    /\ pc = "done" =>
          /\ result \in ValidationErrors
                           \cup {"Canceled", "ErrRetriesExhausted", "nil"}
          /\ result \in ValidationErrors <=> validate(b) # "nil"
          /\ result \in ValidationErrors => result = validate(b)
          /\ result = "Canceled" => ctxDone
          /\ result = "nil" => (rets # <<>> /\ rets[Len(rets)])
          /\ result = "ErrRetriesExhausted" =>
                /\ calls = Indices(b.Iterations)
                /\ Len(rets) = b.Iterations
                /\ AllFalse(rets)

Wit_C34 ==
    /\ pc = "done"
    /\ result = "ErrRetriesExhausted"
    /\ b.Iterations = 3
    /\ b.Jitter = 50
    /\ Len(rets) = 3

\* C35 as stated: every policy that WithTotalDelay or CalculateBackoff
\* returns with a nil error passes validate, for every Iterations >= 2,
\* Iterations = 2 included, and every jitter and duration.
Cex_C35 ==
    \A i \in CallsOf("WithTotalDelay") \cup CallsOf("CalculateBackoff") :
        hist[i].err = "nil" =>
            /\ hist[i].ret # 0
            /\ validate(hist[i].out) = "nil"

\* C36 as stated: on a valid policy with Jitter = 0 the delay Retry passes
\* to Sleep after attempt k, 1 <= k < Iterations, is positive and, for
\* k >= 2, twice the delay after attempt k - 1: neither the shift nor the
\* product Coefficient * multiple wraps around.
Cex_C36 ==
    (validate(b) = "nil" /\ b.Jitter = 0) =>
        \A i \in 1 .. Len(waits) :
            waits[i][1] = "exp" =>
                /\ waits[i][2] \in 1 .. b.Iterations - 1
                /\ waits[i][3] > 0
                /\ waits[i][3] = Delay(b, waits[i][2], 0)
                /\ waits[i][2] >= 2 =>
                      (/\ waits[i - 1][1] = "exp"
                       /\ waits[i - 1][2] = waits[i][2] - 1
                       /\ waits[i][3] = 2 * waits[i - 1][3])

\* C37: once Stop has been called or ctx is done, run returns in the end
\* (or the program has ended in a panic), whether or not a receiver ever
\* reads nt.C and also when run is waiting in the send of a tick; nt.C is
\* never closed.
Thm_C37 ==
    /\ [](~nt.cClosed)
    /\ [](runAt.pc = "exited" => ~nt.cClosed /\ (nt.done \/ ntCtx))
    /\ (nt.done \/ ntCtx) ~> (runAt.pc = "exited" \/ panicked)

Wit_C37 ==
    /\ runAt.pc = "exited"
    /\ runAt.held
    /\ ticks = <<>>
    /\ recv = "away"
    /\ events = <<"stop">>
    /\ ~panicked
    /\ ~nt.cClosed

\* C38 as stated: Stop may be called any number of times, also after ctx
\* has expired, and every call returns normally.
Cex_C38 == ~panicked

====
